---- MODULE Spec2Model ----
(***************************************************************************)
(* Endpoint-constrained white noise: the generation pipeline of            *)
(* lib/noise.ts (generateEndpointConstrainedWhiteNoise), the generator and *)
(* the PCM/WAV encoder of EndpointConstrainedNoiseApp.jsx (generateNoise,  *)
(* floatToPCM16, makeWavBlob, makeRawPCMBlob).                             *)
(*                                                                         *)
(* Numbers.  A JS number that is a sample, a gain or an RMS is an integer  *)
(* count of 1/SCALE (a fixed-point stand-in for a double); a store into a  *)
(* Float32Array rounds it to the coarser grid of F32STEP/SCALE (Fround).   *)
(* Every arithmetic operation rounds its exact result to the nearest grid  *)
(* value, ties to even, as IEEE arithmetic does on its own grid.  32-bit   *)
(* integers of the random sources are kept bit-exact as <<hi, lo>> pairs   *)
(* of 16-bit halves.  sampleRate, sampleCount are tagged: a number, NaN,   *)
(* +Infinity or -Infinity.                                                 *)
(***************************************************************************)
EXTENDS Integers, Sequences, FiniteSets, TLC

\* ------------------------------------------------------------------ bounds
\* Largest sample count a request asks for.
MaxN == 4

\* --------------------------------------------------------- numeric grid
\* Units per 1.0 of the fixed-point stand-in for a double.
SCALE == 2 ^ 10
\* Spacing, in units, of the values a Float32Array element can hold.
F32STEP == 2 ^ 5
\* 2^16: a 32-bit word is <<hi, lo>> with value hi * HALF + lo.
HALF == 2 ^ 16

Abs(a) == IF a < 0 THEN -a ELSE a

Sign(a) == IF a < 0 THEN -1 ELSE IF a > 0 THEN 1 ELSE 0

Max2(a, b) == IF a >= b THEN a ELSE b

Min2(a, b) == IF a <= b THEN a ELSE b

\* a / b (b > 0) rounded to the nearest integer, ties to even.
RoundDiv(a, b) ==
    LET q == a \div b
        r == a % b
    IN  IF 2 * r < b THEN q
        ELSE IF 2 * r > b THEN q + 1
        ELSE IF q % 2 = 0 THEN q ELSE q + 1

\* a / b for either sign of b (b # 0), rounded as RoundDiv.
FDivInt(a, b) == IF b > 0 THEN RoundDiv(a, b) ELSE RoundDiv(-a, -b)

\* Double product of two grid values.
FMul(a, b) == RoundDiv(a * b, SCALE)

\* Double quotient of two grid values (b # 0).
FDiv(a, b) == FDivInt(a * SCALE, b)

\* Math.fround: the store into a Float32Array element.
Fround(a) == RoundDiv(a, F32STEP) * F32STEP

RECURSIVE ISqrtIn(_, _, _)
\* Largest r in lo..hi with r * r <= a (bisection).
ISqrtIn(a, lo, hi) ==
    IF lo >= hi THEN lo
    ELSE LET mid == (lo + hi + 1) \div 2
         IN  IF mid * mid <= a THEN ISqrtIn(a, mid, hi) ELSE ISqrtIn(a, lo, mid - 1)

\* floor(sqrt(a)) for 0 <= a < 2^30.
ISqrt(a) == ISqrtIn(a, 0, 32767)

\* Math.sqrt(num / den) in units, where num is a sum of squares of unit
\* values (units squared) and den a positive count: rounded to nearest, and
\* positive whenever num is (a double square root of a positive normal
\* number is never 0).
SqrtRatio(num, den) ==
    IF num <= 0 THEN 0
    ELSE LET r  == ISqrt(num \div den)
             up == (2 * r + 1) * (2 * r + 1) * den < 4 * num
             v  == IF up THEN r + 1 ELSE r
         IN  Max2(1, v)

\* Math.pow(10, db / 20) in units, for the levels the model requests.
DbToLinear(db) ==
    CASE db = -20 -> 102
      [] db = -6  -> 513
      [] db = 0   -> SCALE
      [] db = 6   -> 2043
      [] db = 20  -> 10 * SCALE

\* ---------------------------------------------------------- JS numbers
\* A JS value: its kind, its number (for a number) and its character codes
\* (for a string).
Num(v) == [k |-> "num", v |-> v, chars |-> <<>>]

NaN == [k |-> "nan", v |-> 0, chars |-> <<>>]

PosInf == [k |-> "inf", v |-> 1, chars |-> <<>>]

NegInf == [k |-> "inf", v |-> -1, chars |-> <<>>]

Undefined == [k |-> "undefined", v |-> 0, chars |-> <<>>]

\* Number.isFinite
IsFinite(x) == x.k = "num"

\* x <= 0 (false for NaN)
LeqZero(x) == (x.k = "num" /\ x.v <= 0) \/ x = NegInf

\* Math.floor of a count given in halves (v = 2 * value, so that 2.5 is a
\* count the floor changes); the result is in whole samples.
MathFloor(x) == IF x.k = "num" THEN Num(x.v \div 2) ELSE x

\* Math.max(0, x): NaN if x is NaN
MathMax0(x) ==
    CASE x.k = "nan" -> NaN
      [] x = PosInf  -> PosInf
      [] x = NegInf  -> Num(0)
      [] OTHER       -> IF x.v < 0 THEN Num(0) ELSE x

\* i < n for an integer i and a JS number n (false for NaN).
LessThan(i, n) ==
    CASE n.k = "nan" -> FALSE
      [] n = PosInf  -> TRUE
      [] n = NegInf  -> FALSE
      [] OTHER       -> i < n.v

\* ------------------------------------------------------- 32-bit words
RECURSIVE Xor16(_, _, _)
\* a ^ b on the low k bits
Xor16(a, b, k) ==
    IF k = 0 THEN 0
    ELSE ((a + b) % 2) + 2 * Xor16(a \div 2, b \div 2, k - 1)

RECURSIVE Or16(_, _, _)
\* a | b on the low k bits
Or16(a, b, k) ==
    IF k = 0 THEN 0
    ELSE (IF a % 2 = 1 \/ b % 2 = 1 THEN 1 ELSE 0) + 2 * Or16(a \div 2, b \div 2, k - 1)

RECURSIVE Pow2(_)
Pow2(k) == IF k = 0 THEN 1 ELSE 2 * Pow2(k - 1)

\* The word of a small integer (two's complement for a negative one).
WordOf(n) == <<(n \div HALF) % HALF, n % HALF>>

\* ToUint32: x >>> 0
ToUint32(w) == <<w[1] % HALF, w[2]>>

\* ToInt32: x | 0, as a number hi * HALF + lo with -2^15 <= hi < 2^15
ToInt32(w) ==
    LET h == w[1] % HALF
    IN  <<IF h >= 32768 THEN h - HALF ELSE h, w[2]>>

WXor(a, b) == <<Xor16(a[1], b[1], 16), Xor16(a[2], b[2], 16)>>

WOr(a, b) == <<Or16(a[1], b[1], 16), Or16(a[2], b[2], 16)>>

\* (a + b) mod 2^32 of two unsigned words
WAdd(a, b) ==
    LET lo == a[2] + b[2]
    IN  <<(a[1] + b[1] + lo \div HALF) % HALF, lo % HALF>>

\* a >>> k for an unsigned word, 0 < k < 16
WShr(a, k) ==
    <<a[1] \div Pow2(k), (a[2] \div Pow2(k)) + (a[1] % Pow2(k)) * Pow2(16 - k)>>

\* Math.imul(a, b) as an unsigned word: the low 32 bits of the product,
\* summed by byte columns so that no partial sum leaves 31 bits.
WImul(a, b) ==
    LET a0 == a[2] % 256
        a1 == a[2] \div 256
        a2 == a[1] % 256
        a3 == a[1] \div 256
        b0 == b[2] % 256
        b1 == b[2] \div 256
        b2 == b[1] % 256
        b3 == b[1] \div 256
        c0 == a0 * b0
        c1 == a0 * b1 + a1 * b0
        c2 == a0 * b2 + a1 * b1 + a2 * b0
        c3 == a0 * b3 + a1 * b2 + a2 * b1 + a3 * b0
        lo == c0 + (c1 % 256) * 256
        hi == (c1 \div 256) + c2 + (c3 % 256) * 256 + (lo \div HALF)
    IN  <<hi % HALF, lo % HALF>>

\* word / 4294967296 in units, truncated: a value in 0 .. SCALE - 1.
UnitOfWord(w) == (w[1] % HALF) \div (HALF \div SCALE)

\* ------------------------------------------------------ random sources
\* 0x6D2B79F5
MulberryInc == <<27947, 31221>>

\* createRng that ignores the seed: every source is Math.random.
createRngUnseeded(seed) == [kind |-> "Math.random", a |-> <<0, 0>>]

\* createRng: Math.random when no seed is given, else mulberry32 with
\* a = seed >>> 0.
createRng(seed) ==
    IF seed = Undefined THEN [kind |-> "Math.random", a |-> <<0, 0>>]
    ELSE [kind |-> "mulberry32", a |-> ToUint32(WordOf(seed.v))]

\* mulberry32: a = (a + 0x6D2B79F5) | 0
MulberryStep(a) == WAdd(a, MulberryInc)

\* mulberry32: the word returned (before the division) from the new a.
MulberryOut(a) ==
    LET t1 == WImul(WXor(a, WShr(a, 15)), WOr(<<0, 1>>, a))
        t2 == WXor(WAdd(t1, WImul(WXor(t1, WShr(t1, 7)), WOr(<<0, 61>>, t1))), t1)
    IN  ToUint32(WXor(t2, WShr(t2, 14)))

\* 1664525 and 1013904223 = 0x3C6EF35F
LcgMul == <<25, 26125>>

LcgInc == <<15470, 62303>>

\* makeLCG: s = (seed | 0) || 123456789 (123456789 = 0x075BCD15)
makeLCG(seed) ==
    IF ToInt32(seed) = <<0, 0>> THEN <<1883, 52501>> ELSE ToInt32(seed)

\* next(): s = Math.imul(1664525, s) + 1013904223, the sum not truncated:
\* the new s is the number hi * 2^16 + lo, which may leave the int32 range.
LcgStep(s) ==
    LET m  == ToInt32(WImul(LcgMul, ToUint32(s)))
        lo == m[2] + LcgInc[2]
    IN  <<m[1] + LcgInc[1] + lo \div HALF, lo % HALF>>

\* A next() that divides s itself, without s >>> 0.
LcgOutSigned(s) == (s[1] * SCALE) \div HALF

\* next(): (s >>> 0) / 4294967296 in units
LcgOut(s) == UnitOfWord(ToUint32(s))

\* ------------------------------------------------------------ sequences
RECURSIVE SumSeq(_)
SumSeq(q) == IF q = <<>> THEN 0 ELSE Head(q) + SumSeq(Tail(q))

RECURSIVE SumSquares(_)
SumSquares(q) == IF q = <<>> THEN 0 ELSE Head(q) * Head(q) + SumSquares(Tail(q))

Zeros(len) == [j \in 1..len |-> 0]

\* ------------------------------------------------------- lib/noise.ts
\* Math.sqrt(-2.0 * Math.log(u)) in units, 0 < u < 1, read at the midpoint
\* of the eighth of (0, 1) that u lies in.
BoxMullerRadius(u) ==
    <<2411, 1874, 1562, 1317, 1098, 886, 660, 368>>[(u \div (SCALE \div 8)) + 1]

\* Math.cos(2.0 * Math.PI * v) in units, read the same way.
BoxMullerCos(v) ==
    <<946, 392, -392, -946, -946, -392, 392, 946>>[(v \div (SCALE \div 8)) + 1]

\* randomGaussian, from the two non-zero draws u and v.
randomGaussian(u, v) == FMul(BoxMullerRadius(u), BoxMullerCos(v))

\* detrendLinearInPlace, the loop: data[i] = data[i] - li (index j is the
\* code's i + 1).
DetrendRamp(data) ==
    LET len == Len(data)
        a == data[1]
        b == data[len]
        denom == len - 1
        li(j) == a + FDivInt((b - a) * (j - 1), denom)
    IN  [j \in 1..len |-> Fround(data[j] - li(j))]

\* data[0] = 0; data[n - 1] = 0
ZeroEnds(data) == [j \in 1..Len(data) |-> IF j = 1 \/ j = Len(data) THEN 0 ELSE data[j]]

\* detrendLinearInPlace without the zeroing of a single sample.
detrendLinearKeepsSingle(data) ==
    IF Len(data) < 2 THEN data ELSE ZeroEnds(DetrendRamp(data))

\* detrendLinearInPlace on a Float32Array.
detrendLinearInPlace(data) ==
    IF Len(data) < 2 THEN (IF Len(data) = 1 THEN <<0>> ELSE data)
    ELSE ZeroEnds(DetrendRamp(data))

\* A removeMeanInPlace that subtracts nothing.
removeMeanSkipped(data) == data

\* removeMeanInPlace on a Float32Array.
removeMeanInPlace(data) ==
    LET len == Len(data)
    IN  IF len = 0 THEN data
        ELSE LET mean == FDivInt(SumSeq(data), len)
             IN  [j \in 1..len |-> Fround(data[j] - mean)]

\* rms
rms(data) == IF Len(data) = 0 THEN 0 ELSE SqrtRatio(SumSquares(data), Len(data))

\* The peak scan of step 5: the largest Math.abs(out[i]), 0 for no sample.
PeakAbs(data) ==
    IF Len(data) = 0 THEN 0
    ELSE CHOOSE m \in {Abs(data[j]) : j \in 1..Len(data)} :
            \A j \in 1..Len(data) : Abs(data[j]) <= m

\* A scaling loop that leaves every sample as it is.
ScaleF32Skipped(data, g) == data

\* out[i] *= g over a Float32Array.
ScaleF32(data, g) == [j \in 1..Len(data) |-> Fround(FMul(data[j], g))]

\* --------------------------------------------------------------- state
VARIABLES
    pc,          \* position of the call in progress; "idle", "done" between calls
    fn,          \* the function called
    opts,        \* its argument
    n,           \* generateEndpointConstrainedWhiteNoise: const n
    out,         \* the Float32Array out
    rng,         \* the call's random source
    i,           \* index of the fill loop
    u, v,        \* randomGaussian: the two draws (0: not drawn yet)
    currentRms,  \* the RMS measured before scaling
    gain,        \* the scale factor computed from it, if any
    peak,        \* generateEndpointConstrainedWhiteNoise: let peak of step 5
    drew,        \* whether the call has drawn a random value
    x, y,        \* generateNoise: the Float64Arrays x and y
    spare,       \* makeGaussian: let spare
    result,      \* what the call returned or threw
    samples,     \* the encoder's argument samples
    sampleRate,  \* makeWavBlob's argument sampleRate
    pcm,         \* the Int16Array of floatToPCM16
    view,        \* makeWavBlob: the bytes of the ArrayBuffer under the DataView
    offset,      \* makeWavBlob: let offset
    blob,        \* the Blob returned
    prev,        \* an earlier call a caller kept: its function, options, result
    pair,        \* two generation calls in progress and the engine's Math.random
    noiseApp,    \* EndpointConstrainedNoiseApp: its state, effect and object URLs
    app          \* App: its state and what it handed to playback and download

vars ==
    <<pc, fn, opts, n, out, rng, i, u, v, currentRms, gain, peak, drew, x, y, spare,
      result, samples, sampleRate, pcm, view, offset, blob, prev, pair, noiseApp, app>>

\* The state outside a generation call and its encoding.
restVars == <<pair, noiseApp, app>>

\* The state of generateEndpointConstrainedWhiteNoise alone.
noiseVars == <<n, u, v, peak>>

\* The state of generateNoise alone.
genVars == <<x, y, spare>>

\* The state of the encoders.
encVars == <<samples, sampleRate, pcm, view, offset, blob>>

\* The state of a generation call.
callVars ==
    <<opts, n, out, rng, i, u, v, currentRms, gain, peak, drew, x, y, spare, result>>

NoGain == [set |-> FALSE, v |-> 0, tiny |-> FALSE]

Gain(g) == [set |-> TRUE, v |-> g, tiny |-> FALSE]

\* A gain of t / 1e-20: 1e-20 is below the grid, so the gain is kept as its
\* numerator t.
GainOverTiny(t) == [set |-> TRUE, v |-> t, tiny |-> TRUE]

NoSpare == [set |-> FALSE, v |-> 0]

Spare(val) == [set |-> TRUE, v |-> val]

Str(codes) == [k |-> "string", v |-> 0, chars |-> codes]

Null == [k |-> "null", v |-> 0, chars |-> <<>>]

NoResult == [kind |-> "none", value |-> <<>>]

Return(value) == [kind |-> "return", value |-> value]

Throw(name) == [kind |-> "throw", value |-> name]

NoRng == [kind |-> "none", a |-> <<0, 0>>]

NoPrev == [fn |-> "none", opts |-> <<>>, result |-> NoResult, later |-> 0]

NoPair == [started |-> FALSE, mathRandom |-> <<>>, calls |-> <<>>]

\* EndpointConstrainedNoiseApp before it is mounted.  sampleRate: the state
\* of that name; generated: whether the state generated holds a buffer;
\* wavUrl, pcmUrl: the state of that name, an object URL by its number or 0
\* for ""; wavName, pcmName: the rate that the file name of the link gives,
\* 0 for ""; effect: the wavUrl and pcmUrl that the cleanup of the revoking
\* effect closed over; created: how many object URLs the document has
\* created; revoked: the ones it has revoked.
NoNoiseApp ==
    [mounted |-> FALSE, sampleRate |-> 0, generated |-> FALSE,
     wavUrl |-> 0, wavName |-> 0, pcmUrl |-> 0, pcmName |-> 0,
     effect |-> <<0, 0>>, created |-> 0, revoked |-> {}]

\* No Float32Array: the null of App's state generated.
NoBuffer == [call |-> 0, distribution |-> "none", targetRmsDbfs |-> 0]

\* App before it is mounted.  distribution, targetRmsDbfs, generated,
\* isPlaying: the state of that name, a buffer being known by the doGenerate
\* call that made it and the options it was made with; calls: the doGenerate
\* calls made so far; click: what the last click on generate & play found
\* (calls, distribution, targetRmsDbfs); played: the buffer it copied into
\* the AudioBuffer; encoded: the buffer the last download handed to
\* encodeWav16bitPCM; fname: the distribution and level its file name gives.
NoApp ==
    [mounted |-> FALSE, distribution |-> "gaussian", targetRmsDbfs |-> -80,
     generated |-> NoBuffer, isPlaying |-> FALSE, calls |-> 0,
     click |-> NoBuffer, played |-> NoBuffer,
     encoded |-> NoBuffer, fname |-> NoBuffer]

NoBlob == [type |-> "", size |-> 0, bytes |-> <<>>]

\* new Blob([bytes], { type })
Blob(bytes, type) == [type |-> type, size |-> Len(bytes), bytes |-> bytes]

\* ------------------------------------------------------------- inputs
\* Values Math.random returns, in units: 0, a value below and one above 1/2.
RandomValues == {0, 300, 1000}

SampleRates == {NaN, PosInf, NegInf, Num(0), Num(-1), Num(48000)}

\* Sample counts, in halves: -1, -0.5, 0, 1, .., MaxN, 2.5, and the
\* non-finite ones.
SampleCounts ==
    {NaN, PosInf, NegInf, Num(-2), Num(-1), Num(5)} \cup {Num(2 * c) : c \in 0..MaxN}

Levels == {-20, 0}

NoiseSeeds == {Undefined, Num(0), Num(1234)}

NoiseOptions ==
    [sampleRate : SampleRates, sampleCount : SampleCounts,
     distribution : {"gaussian", "uniform"}, targetRmsDbfs : Levels,
     zeroEndpoints : BOOLEAN, dcRemoval : BOOLEAN, seed : NoiseSeeds]

\* ---------------------------------------------------------------- Init
Init ==
    /\ pc = "idle"
    /\ fn = "none"
    /\ opts = <<>>
    /\ n = Num(0)
    /\ out = <<>>
    /\ rng = NoRng
    /\ i = 0
    /\ u = 0
    /\ v = 0
    /\ currentRms = 0
    /\ gain = NoGain
    /\ peak = 0
    /\ drew = FALSE
    /\ x = <<>>
    /\ y = <<>>
    /\ spare = NoSpare
    /\ result = NoResult
    /\ samples = <<>>
    /\ sampleRate = 0
    /\ pcm = <<>>
    /\ view = <<>>
    /\ offset = 0
    /\ blob = NoBlob
    /\ prev = NoPrev
    /\ pair = NoPair
    /\ noiseApp = NoNoiseApp
    /\ app = NoApp

\* The locals of a call as they are when it starts.
FreshLocals ==
    /\ n' = Num(0)
    /\ out' = <<>>
    /\ rng' = NoRng
    /\ i' = 0
    /\ u' = 0
    /\ v' = 0
    /\ currentRms' = 0
    /\ gain' = NoGain
    /\ peak' = 0
    /\ drew' = FALSE
    /\ x' = <<>>
    /\ y' = <<>>
    /\ spare' = NoSpare

FreshCall == FreshLocals /\ result' = NoResult

\* The encoder's state as it is before an encoder is called.
FreshEnc ==
    /\ samples' = <<>>
    /\ sampleRate' = 0
    /\ pcm' = <<>>
    /\ view' = <<>>
    /\ offset' = 0
    /\ blob' = NoBlob

\* One call of the random source r: the set of <<value in units, source
\* afterwards>>.  Math.random may return any of RandomValues.
RngCall(r) ==
    IF r.kind = "Math.random" THEN {<<d, r>> : d \in RandomValues}
    ELSE LET a2 == MulberryStep(r.a)
         IN  {<<UnitOfWord(MulberryOut(a2)), [r EXCEPT !.a = a2]>>}

\* ------------------------- generateEndpointConstrainedWhiteNoise(opts)
NoiseCall(o) ==
    /\ pc = "idle"
    /\ pc' = "n_validate"
    /\ fn' = "generateEndpointConstrainedWhiteNoise"
    /\ opts' = o
    /\ FreshCall
    /\ UNCHANGED encVars

\* A validation that refuses only a non-finite sample rate.
InvalidSampleRateFiniteOnly(o) == ~IsFinite(o.sampleRate)

\* if (!Number.isFinite(sampleRate) || sampleRate <= 0) throw new Error(..)
InvalidSampleRate(o) == ~IsFinite(o.sampleRate) \/ LeqZero(o.sampleRate)

NoiseValidate ==
    /\ pc = "n_validate"
    /\ IF InvalidSampleRate(opts)
       THEN /\ result' = Throw("Error: sampleRate must be a positive number")
            /\ pc' = "done"
       ELSE /\ pc' = "n_alloc"
            /\ UNCHANGED result
    /\ UNCHANGED <<fn, opts, n, out, rng, i, u, v, currentRms, gain, drew, peak, genVars, encVars, prev, restVars>>

\* const n = Math.max(0, Math.floor(sampleCount))
SampleCountOf(o) == MathMax0(MathFloor(o.sampleCount))

\* new Float32Array(len): ToIndex(len) takes NaN to 0 and throws a
\* RangeError for a length that is not in 0 .. 2^53 - 1.
Float32ArrayOf(len) ==
    CASE len.k = "nan" -> Return(<<>>)
      [] len.k = "inf" -> Throw("RangeError: Invalid typed array length")
      [] OTHER -> IF len.v < 0 THEN Throw("RangeError: Invalid typed array length")
                  ELSE Return(Zeros(len.v))

NoiseAlloc ==
    /\ pc = "n_alloc"
    /\ n' = SampleCountOf(opts)
    /\ LET arr == Float32ArrayOf(SampleCountOf(opts))
       IN  IF arr.kind = "throw"
           THEN /\ result' = arr
                /\ pc' = "done"
                /\ UNCHANGED <<out, rng>>
           ELSE /\ out' = arr.value
                /\ rng' = createRng(opts.seed)
                /\ pc' = "n_fill"
                /\ UNCHANGED result
    /\ UNCHANGED <<fn, opts, i, u, v, currentRms, gain, drew, peak, genVars, encVars, prev, restVars>>

\* A loop test that never asks for another draw.
RedrawNever(val) == FALSE

\* randomGaussian: the test of while (u === 0) and of while (v === 0)
Redraw(val) == val = 0

\* randomGaussian: while (u === 0) u = rng();
NoiseDrawU ==
    /\ pc = "n_fill" /\ opts.distribution = "gaussian" /\ LessThan(i, n)
    /\ Redraw(u)
    /\ \E d \in RngCall(rng) : u' = d[1] /\ rng' = d[2]
    /\ drew' = TRUE
    /\ UNCHANGED <<pc, fn, opts, n, out, i, v, currentRms, gain, result, peak, genVars, encVars, prev, restVars>>

\* randomGaussian: while (v === 0) v = rng();
NoiseDrawV ==
    /\ pc = "n_fill" /\ opts.distribution = "gaussian" /\ LessThan(i, n)
    /\ ~Redraw(u) /\ Redraw(v)
    /\ \E d \in RngCall(rng) : v' = d[1] /\ rng' = d[2]
    /\ UNCHANGED <<pc, fn, opts, n, out, i, u, currentRms, gain, drew, result, peak, genVars, encVars, prev, restVars>>

\* out[i] = randomGaussian(rng)
NoiseStoreGaussian ==
    /\ pc = "n_fill" /\ opts.distribution = "gaussian" /\ LessThan(i, n)
    /\ ~Redraw(u) /\ ~Redraw(v)
    /\ out' = [out EXCEPT ![i + 1] = Fround(randomGaussian(u, v))]
    /\ i' = i + 1
    /\ u' = 0
    /\ v' = 0
    /\ UNCHANGED <<pc, fn, opts, n, rng, currentRms, gain, drew, result, peak, genVars, encVars, prev, restVars>>

\* out[i] = rng() * 2 - 1
NoiseStoreUniform ==
    /\ pc = "n_fill" /\ opts.distribution # "gaussian" /\ LessThan(i, n)
    /\ \E d \in RngCall(rng) :
          /\ out' = [out EXCEPT ![i + 1] = Fround(d[1] * 2 - SCALE)]
          /\ rng' = d[2]
    /\ i' = i + 1
    /\ drew' = TRUE
    /\ UNCHANGED <<pc, fn, opts, n, u, v, currentRms, gain, result, peak, genVars, encVars, prev, restVars>>

NoiseFillDone ==
    /\ pc = "n_fill" /\ ~LessThan(i, n)
    /\ pc' = "n_detrend"
    /\ UNCHANGED <<fn, opts, n, out, rng, i, u, v, currentRms, gain, drew, result, peak, genVars, encVars, prev, restVars>>

\* 2) if (zeroEndpoints) detrendLinearInPlace(out)
NoiseDetrend ==
    /\ pc = "n_detrend"
    /\ out' = IF opts.zeroEndpoints THEN detrendLinearInPlace(out) ELSE out
    /\ pc' = "n_dc"
    /\ UNCHANGED <<fn, opts, n, rng, i, u, v, currentRms, gain, drew, result, peak, genVars, encVars, prev, restVars>>

\* 3) if (dcRemoval) removeMeanInPlace(out)
NoiseDcRemoval ==
    /\ pc = "n_dc"
    /\ out' = IF opts.dcRemoval THEN removeMeanInPlace(out) ELSE out
    /\ pc' = "n_normalize"
    /\ UNCHANGED <<fn, opts, n, rng, i, u, v, currentRms, gain, drew, result, peak, genVars, encVars, prev, restVars>>

\* A normalisation that computes a gain whatever the RMS is.
NoiseGainAlways(target, r) == Gain(FDiv(target, IF r > 0 THEN r ELSE 1))

\* 4) the scale factor s = targetRms / currentRms, when the RMS allows one
NoiseGain(target, r) == IF r > 0 THEN Gain(FDiv(target, r)) ELSE NoGain

\* 4) out[i] *= s, or out.fill(0)
NoiseNormalized(data, g) == IF g.set THEN ScaleF32(data, g.v) ELSE Zeros(Len(data))

NoiseNormalize ==
    /\ pc = "n_normalize"
    /\ currentRms' = rms(out)
    /\ gain' = NoiseGain(DbToLinear(opts.targetRmsDbfs), rms(out))
    /\ out' = NoiseNormalized(out, NoiseGain(DbToLinear(opts.targetRmsDbfs), rms(out)))
    /\ pc' = "n_clip"
    /\ UNCHANGED <<fn, opts, n, rng, i, u, v, drew, result, peak, genVars, encVars, prev, restVars>>

\* 5) if (peak > 1) { k = 1 / peak; out[i] *= k }
ClipSafe(data) ==
    IF PeakAbs(data) > SCALE THEN ScaleF32(data, FDiv(SCALE, PeakAbs(data))) ELSE data

NoiseClip ==
    /\ pc = "n_clip"
    /\ peak' = PeakAbs(out)
    /\ out' = ClipSafe(out)
    /\ pc' = "n_endpoints"
    /\ UNCHANGED <<fn, opts, n, rng, i, u, v, currentRms, gain, drew, result, genVars, encVars, prev, restVars>>

\* A step 6 that leaves the buffer as steps 2 to 5 left it.
ReassertEndpointsSkipped(data, o, cnt) == data

\* if (zeroEndpoints && n >= 1) { out[0] = 0; if (n > 1) out[n - 1] = 0 }
ReassertEndpoints(data, o, cnt) ==
    IF o.zeroEndpoints /\ cnt.k = "num" /\ cnt.v >= 1 THEN ZeroEnds(data) ELSE data

NoiseReturn ==
    /\ pc = "n_endpoints"
    /\ out' = ReassertEndpoints(out, opts, n)
    /\ result' = Return(ReassertEndpoints(out, opts, n))
    /\ pc' = "done"
    /\ UNCHANGED <<fn, opts, n, rng, i, u, v, currentRms, gain, drew, peak, genVars, encVars, prev, restVars>>

\* ------------------------------------- EndpointConstrainedNoiseApp.jsx
\* /^-?\d+$/.test(String(seed)), on the character codes of the string
IsIntegerString(codes) ==
    LET digits == IF codes # <<>> /\ codes[1] = 45 THEN Tail(codes) ELSE codes
    IN  /\ digits # <<>>
        /\ \A j \in 1..Len(digits) : digits[j] \in 48..57

RECURSIVE ParseDigits(_, _)
\* The decimal number of a digit string, modulo 2^32, after the word acc.
ParseDigits(acc, digits) ==
    IF digits = <<>> THEN acc
    ELSE ParseDigits(WAdd(WImul(acc, <<0, 10>>), <<0, Head(digits) - 48>>), Tail(digits))

\* -w modulo 2^32
WNeg(w) == WAdd(WXor(w, <<HALF - 1, HALF - 1>>), <<0, 1>>)

\* Number(seed) | 0 of an integer string
NumberOfString(codes) ==
    IF codes[1] = 45 THEN WNeg(ParseDigits(<<0, 0>>, Tail(codes)))
    ELSE ParseDigits(<<0, 0>>, codes)

RECURSIVE Fnv1a(_, _)
\* h ^= str.charCodeAt(i); h = Math.imul(h, 16777619)
Fnv1a(h, codes) ==
    IF codes = <<>> THEN h
    ELSE Fnv1a(WImul(WXor(h, <<0, Head(codes)>>), <<256, 403>>), Tail(codes))

RECURSIVE DigitsOf(_)
\* The decimal digits of a natural number, as character codes.
DigitsOf(m) ==
    IF m < 10 THEN <<48 + m>> ELSE Append(DigitsOf(m \div 10), 48 + (m % 10))

\* String(seed) for a string or an integer seed
StringOf(seed) ==
    IF seed.k = "string" THEN seed.chars
    ELSE IF seed.v < 0 THEN <<45>> \o DigitsOf(-seed.v) ELSE DigitsOf(seed.v)

\* seed === undefined || seed === null || seed === ""
NoSeed(seed) == seed = Undefined \/ seed = Null \/ seed = Str(<<>>)

\* generateNoise: the seed s of a supplied seed (2166136261 = 0x811C9DC5)
SeedWord(seed) ==
    IF IsIntegerString(StringOf(seed)) THEN NumberOfString(StringOf(seed))
    ELSE Fnv1a(<<33052, 40389>>, StringOf(seed))

\* makeGaussian: Math.sqrt((-2 * Math.log(s)) / s) in units, for 0 < s < 1
\* given in units squared, read at the midpoint of the eighth of (0, 1) that
\* s lies in.
PolarMul(s2) ==
    <<9645, 4327, 2794, 1991, 1465, 1069, 732, 380>>[(s2 \div ((SCALE * SCALE) \div 8)) + 1]

\* do { .. } while (!s || s >= 1): whether the pair is rejected
PolarRejects(pu, pv) == pu * pu + pv * pv = 0 \/ pu * pu + pv * pv >= SCALE * SCALE

\* The ramp (1 - t) * a + t * b at t = i / den, and y[i] = x[i] - ramp
\* (index j is the code's i + 1).
GenDetrended(xs) ==
    LET len == Len(xs)
        a == xs[1]
        b == xs[len]
        den == len - 1
        t(j) == FDivInt((j - 1) * SCALE, den)
        ramp(j) == FMul(SCALE - t(j), a) + FMul(t(j), b)
    IN  [j \in 1..len |-> xs[j] - ramp(j)]

\* 0.7 in units
SoftenFactor == 717

\* if (softenEdges && N >= 4) { y[1] *= 0.7; y[N - 2] *= 0.7 }
GenSoftened(ys, soften) ==
    IF soften /\ Len(ys) >= 4
    THEN [j \in 1..Len(ys) |->
            IF j = 2 \/ j = Len(ys) - 1 THEN FMul(ys[j], SoftenFactor) ELSE ys[j]]
    ELSE ys

\* const rms = Math.sqrt(sum2 / N) || 1e-20; const g = targetRMS / rms
GenGain(target, r) == IF r = 0 THEN GainOverTiny(target) ELSE Gain(FDiv(target, r))

\* A magnitude no sample of the model reaches: a non-zero sample times a
\* gain over 1e-20.
Huge == 2 ^ 30

\* y[i] * g as a double
TimesGain(val, g) ==
    IF g.tiny THEN (IF val = 0 \/ g.v = 0 THEN 0 ELSE Sign(val) * Huge)
    ELSE FMul(val, g.v)

\* out[i] = y[i] * g into a Float32Array
GenScaled(ys, g) == [j \in 1..Len(ys) |-> Fround(TimesGain(ys[j], g))]

GenCall(o) ==
    /\ pc = "idle"
    /\ pc' = "g_guard"
    /\ fn' = "generateNoise"
    /\ opts' = o
    /\ FreshCall
    /\ UNCHANGED encVars

\* if (!Number.isFinite(N) || N < 2) return new Float32Array(0)
GenRejectsN(cnt) == ~IsFinite(cnt) \/ cnt.v < 2

GenGuard ==
    /\ pc = "g_guard"
    /\ IF GenRejectsN(opts.N)
       THEN /\ result' = Return(<<>>)
            /\ pc' = "done"
       ELSE /\ pc' = "g_seed"
            /\ UNCHANGED result
    /\ UNCHANGED <<fn, opts, out, rng, i, currentRms, gain, drew, noiseVars, genVars, encVars, prev, restVars>>

\* The seed s when none is supplied: crypto.getRandomValues, or Date.now()
\* ^ Math.random() * 0xffffffff: any 32-bit word.
EntropyWords == {<<0, 0>>, <<0, 1>>, <<40000, 12345>>}

\* const rng = makeLCG(s); const gaussian = makeGaussian(rng);
\* const x = new Float64Array(N)
GenSeed ==
    /\ pc = "g_seed"
    /\ \E s \in (IF NoSeed(opts.seed) THEN EntropyWords ELSE {SeedWord(opts.seed)}) :
          rng' = [kind |-> "lcg", a |-> makeLCG(s)]
    /\ spare' = NoSpare
    /\ x' = Zeros(opts.N.v)
    /\ pc' = "g_fill"
    /\ UNCHANGED <<fn, opts, out, i, currentRms, gain, drew, noiseVars, y, result, encVars, prev, restVars>>

\* A cache test by truthiness, if (spare): a stored 0 counts as no value.
HasSpareTruthy(sp) == sp.set /\ sp.v # 0

\* spare !== null
HasSpare(sp) == sp.set

\* gaussian(): if (spare !== null) { val = spare; spare = null; return val }
GenUseSpare ==
    /\ pc = "g_fill" /\ i < opts.N.v
    /\ HasSpare(spare)
    /\ x' = [x EXCEPT ![i + 1] = spare.v]
    /\ spare' = NoSpare
    /\ i' = i + 1
    /\ UNCHANGED <<pc, fn, opts, out, rng, currentRms, gain, drew, noiseVars, y, result, encVars, prev, restVars>>

\* gaussian(): one turn of the do-while loop; an accepted pair ends it with
\* spare = v * mul and the return of u * mul.
GenPolar ==
    /\ pc = "g_fill" /\ i < opts.N.v
    /\ ~HasSpare(spare)
    /\ \E s1 \in {LcgStep(rng.a)} : \E s2 \in {LcgStep(s1)} :
          LET pu == 2 * LcgOut(s1) - SCALE
              pv == 2 * LcgOut(s2) - SCALE
              mul == PolarMul(pu * pu + pv * pv)
          IN  /\ rng' = [rng EXCEPT !.a = s2]
              /\ IF PolarRejects(pu, pv)
                 THEN UNCHANGED <<x, spare, i>>
                 ELSE /\ x' = [x EXCEPT ![i + 1] = FMul(pu, mul)]
                      /\ spare' = Spare(FMul(pv, mul))
                      /\ i' = i + 1
    /\ drew' = TRUE
    /\ UNCHANGED <<pc, fn, opts, out, currentRms, gain, noiseVars, y, result, encVars, prev, restVars>>

GenFillDone ==
    /\ pc = "g_fill" /\ ~(i < opts.N.v)
    /\ pc' = "g_detrend"
    /\ UNCHANGED <<fn, opts, out, rng, i, currentRms, gain, drew, noiseVars, genVars, result, encVars, prev, restVars>>

\* Remove linear component so endpoints are zero
GenDetrend ==
    /\ pc = "g_detrend"
    /\ y' = GenDetrended(x)
    /\ pc' = "g_soften"
    /\ UNCHANGED <<fn, opts, out, rng, i, currentRms, gain, drew, noiseVars, x, spare, result, encVars, prev, restVars>>

GenSoften ==
    /\ pc = "g_soften"
    /\ y' = GenSoftened(y, opts.softenEdges)
    /\ pc' = "g_scale"
    /\ UNCHANGED <<fn, opts, out, rng, i, currentRms, gain, drew, noiseVars, x, spare, result, encVars, prev, restVars>>

\* Scale to target RMS (dBFS re 1.0) and return out
GenScale ==
    /\ pc = "g_scale"
    /\ currentRms' = SqrtRatio(SumSquares(y), Len(y))
    /\ gain' = GenGain(DbToLinear(opts.rmsDBFS), SqrtRatio(SumSquares(y), Len(y)))
    /\ out' = GenScaled(y, GenGain(DbToLinear(opts.rmsDBFS), SqrtRatio(SumSquares(y), Len(y))))
    /\ result' = Return(GenScaled(y, GenGain(DbToLinear(opts.rmsDBFS), SqrtRatio(SumSquares(y), Len(y)))))
    /\ pc' = "done"
    /\ UNCHANGED <<fn, opts, rng, i, drew, noiseVars, genVars, encVars, prev, restVars>>

\* Requested N: -1 .. MaxN and the non-finite ones.
GenCounts == {NaN, PosInf, NegInf} \cup {Num(c) : c \in (-1)..MaxN}

\* Seeds: none, 42, "abc", "-7", and 2003239710, whose second draw is
\* exactly 1/2 (the state 2^31), so that its first spare is 0.
GenSeeds ==
    {Undefined, Null, Str(<<>>), Num(42), Str(<<97, 98, 99>>), Str(<<45, 55>>),
     Num(2003239710)}

GenOptions == [N : GenCounts, rmsDBFS : Levels, softenEdges : BOOLEAN, seed : GenSeeds]

\* A conversion that multiplies by 32768 in place of 32767.
TimesFullScale32768(val) == Sign(val) * ((Abs(val) * 32768) \div SCALE)

\* ------------------------------------------------------ WAV/PCM export
\* (v * 32767) | 0 for a clamped sample v in units: the product truncated
\* toward zero.
TimesFullScale(val) == Sign(val) * ((Abs(val) * 32767) \div SCALE)

\* The store pcm[i] = t into an Int16Array: t modulo 2^16, as a signed value.
ToInt16(t) == ((t + 32768) % HALF) - 32768

\* floatToPCM16: v = Math.max(-1, Math.min(1, float32[i])); pcm[i] = (v * 32767) | 0
floatToPCM16(float32) ==
    [j \in 1..Len(float32) |->
        ToInt16(TimesFullScale(Max2(-SCALE, Min2(SCALE, float32[j]))))]

\* The bytes of a value's low 16 bits, little-endian (setUint16, setInt16).
Bytes16(val) == <<(val % HALF) % 256, (val % HALF) \div 256>>

\* A 32-bit store that writes the high byte first.
Bytes32BigEndian(val) ==
    <<(val \div 16777216) % 256, (val \div 65536) % 256, (val \div 256) % 256, val % 256>>

\* The bytes of a value's low 32 bits, little-endian (setUint32).
Bytes32(val) == Bytes16(val % HALF) \o Bytes16((val \div HALF) % HALF)

\* view.set..(at, ..): the bytes written from index at on.
SetBytes(bytes, at, new) ==
    [j \in 1..Len(bytes) |->
        IF j > at /\ j <= at + Len(new) THEN new[j - at] ELSE bytes[j]]

\* writeString, writeUint32, writeUint16 on w = [view, offset]
writeString(w, codes) ==
    [view |-> SetBytes(w.view, w.offset, codes), offset |-> w.offset + Len(codes)]

writeUint32(w, val) ==
    [view |-> SetBytes(w.view, w.offset, Bytes32(val)), offset |-> w.offset + 4]

writeUint16(w, val) ==
    [view |-> SetBytes(w.view, w.offset, Bytes16(val)), offset |-> w.offset + 2]

RECURSIVE WriteSamples(_, _)
\* for (..) { view.setInt16(offset, pcm[i], true); offset += 2 }
WriteSamples(w, ints) ==
    IF ints = <<>> THEN w
    ELSE WriteSamples([view |-> SetBytes(w.view, w.offset, Bytes16(Head(ints))),
                       offset |-> w.offset + 2], Tail(ints))

\* makeWavBlob: the header writes, from offset 0 of a zeroed ArrayBuffer of
\* 44 + subchunk2Size bytes.
WavHeader(ints, rate) ==
    LET numChannels == 1
        bitsPerSample == 16
        byteRate == (rate * numChannels * bitsPerSample) \div 8
        blockAlign == (numChannels * bitsPerSample) \div 8
        subchunk2Size == Len(ints) * 2
        chunkSize == 36 + subchunk2Size
        w0 == [view |-> Zeros(44 + subchunk2Size), offset |-> 0]
        w1 == writeString(w0, <<82, 73, 70, 70>>)
        w2 == writeUint32(w1, chunkSize)
        w3 == writeString(w2, <<87, 65, 86, 69>>)
        w4 == writeString(w3, <<102, 109, 116, 32>>)
        w5 == writeUint32(w4, 16)
        w6 == writeUint16(w5, 1)
        w7 == writeUint16(w6, numChannels)
        w8 == writeUint32(w7, rate)
        w9 == writeUint32(w8, byteRate)
        w10 == writeUint16(w9, blockAlign)
        w11 == writeUint16(w10, bitsPerSample)
        w12 == writeString(w11, <<100, 97, 116, 97>>)
    IN  writeUint32(w12, subchunk2Size)

RECURSIVE Int16Bytes(_)
\* The bytes of an Int16Array (little-endian platform), as a Blob part.
Int16Bytes(ints) ==
    IF ints = <<>> THEN <<>> ELSE Bytes16(Head(ints)) \o Int16Bytes(Tail(ints))

\* Sample rates the application passes to makeWavBlob.
WavRates == {16000, 48000}

\* makeWavBlob({ samples, sampleRate }) on the buffer last generated (the
\* locals of the call that generated it are gone)
WavCall(rate) ==
    /\ pc = "done" /\ result.kind = "return"
    /\ pc' = "w_pcm"
    /\ fn' = "makeWavBlob"
    /\ samples' = result.value
    /\ sampleRate' = rate
    /\ opts' = <<>>
    /\ FreshLocals
    /\ UNCHANGED <<result, pcm, view, offset, blob, prev, restVars>>

\* makeRawPCMBlob({ samples }) on the buffer last generated
RawCall ==
    /\ pc = "done" /\ result.kind = "return"
    /\ pc' = "r_pcm"
    /\ fn' = "makeRawPCMBlob"
    /\ samples' = result.value
    /\ opts' = <<>>
    /\ FreshLocals
    /\ UNCHANGED <<result, sampleRate, pcm, view, offset, blob, prev, restVars>>

\* const pcm = floatToPCM16(samples)
EncodePcm ==
    /\ pc \in {"w_pcm", "r_pcm"}
    /\ pcm' = floatToPCM16(samples)
    /\ pc' = IF pc = "w_pcm" THEN "w_header" ELSE "r_blob"
    /\ UNCHANGED <<fn, callVars, samples, sampleRate, view, offset, blob, prev, restVars>>

WavWriteHeader ==
    /\ pc = "w_header"
    /\ view' = WavHeader(pcm, sampleRate).view
    /\ offset' = WavHeader(pcm, sampleRate).offset
    /\ pc' = "w_samples"
    /\ UNCHANGED <<fn, callVars, samples, sampleRate, pcm, blob, prev, restVars>>

WavWriteSamples ==
    /\ pc = "w_samples"
    /\ view' = WriteSamples([view |-> view, offset |-> offset], pcm).view
    /\ offset' = WriteSamples([view |-> view, offset |-> offset], pcm).offset
    /\ pc' = "w_blob"
    /\ UNCHANGED <<fn, callVars, samples, sampleRate, pcm, blob, prev, restVars>>

\* return new Blob([view], { type: "audio/wav" })
WavReturn ==
    /\ pc = "w_blob"
    /\ blob' = Blob(view, "audio/wav")
    /\ pc' = "encoded"
    /\ UNCHANGED <<fn, callVars, samples, sampleRate, pcm, view, offset, prev, restVars>>

\* return new Blob([pcm], { type: "application/octet-stream" })
RawReturn ==
    /\ pc = "r_blob"
    /\ blob' = Blob(Int16Bytes(pcm), "application/octet-stream")
    /\ pc' = "encoded"
    /\ UNCHANGED <<fn, callVars, samples, sampleRate, pcm, view, offset, prev, restVars>>

\* The application encodes the buffer it generated.
WavStart == \E rate \in WavRates : WavCall(rate)

\* A caller calls generateEndpointConstrainedWhiteNoise with some options.
NoiseStart == pc = "idle" /\ UNCHANGED <<prev, restVars>> /\ \E o \in NoiseOptions : NoiseCall(o)

\* A caller calls generateNoise with some options.
GenStart == pc = "idle" /\ UNCHANGED <<prev, restVars>> /\ \E o \in GenOptions : GenCall(o)

\* The caller is done with the result: the next call starts from nothing
\* the last one left (every buffer and random source is local to its call).
Forget ==
    /\ pc \in {"done", "encoded"}
    /\ pc' = "idle"
    /\ fn' = "none"
    /\ opts' = <<>>
    /\ FreshCall
    /\ FreshEnc
    /\ UNCHANGED <<prev, restVars>>

\* ---------------------------------------------------------------- Next
Next ==
    \/ NoiseStart
    \/ NoiseValidate
    \/ NoiseAlloc
    \/ NoiseDrawU
    \/ NoiseDrawV
    \/ NoiseStoreGaussian
    \/ NoiseStoreUniform
    \/ NoiseFillDone
    \/ NoiseDetrend
    \/ NoiseDcRemoval
    \/ NoiseNormalize
    \/ NoiseClip
    \/ NoiseReturn
    \/ GenStart
    \/ GenGuard
    \/ GenSeed
    \/ GenUseSpare
    \/ GenPolar
    \/ GenFillDone
    \/ GenDetrend
    \/ GenSoften
    \/ GenScale
    \/ WavStart
    \/ RawCall
    \/ EncodePcm
    \/ WavWriteHeader
    \/ WavWriteSamples
    \/ WavReturn
    \/ RawReturn
    \/ Forget

Spec == Init /\ [][Next]_vars

\* ------------------------------------------- calls made one after another
\* The requests of the specification that compares calls: a valid rate, one
\* count, every seed.
SeqNoiseOptions ==
    [sampleRate : {Num(48000)}, sampleCount : {Num(2 * (MaxN - 1))},
     distribution : {"gaussian", "uniform"}, targetRmsDbfs : {0},
     zeroEndpoints : {TRUE}, dcRemoval : BOOLEAN, seed : NoiseSeeds]

SeqGenOptions ==
    [N : {Num(MaxN - 1), Num(MaxN)}, rmsDBFS : {0}, softenEdges : BOOLEAN,
     seed : GenSeeds]

\* A seed was supplied with the request.
SeedSupplied ==
    IF fn = "generateEndpointConstrainedWhiteNoise" THEN opts.seed.k = "num"
    ELSE opts.seed.k = "num" \/ (opts.seed.k = "string" /\ opts.seed.chars # <<>>)

\* A call starts after the one the caller kept: later counts such calls, up
\* to two.
LaterCall(p) == IF p.fn = "none" THEN p ELSE [p EXCEPT !.later = Min2(2, @ + 1)]

SeqNoiseStart ==
    /\ pc = "idle"
    /\ prev' = LaterCall(prev)
    /\ UNCHANGED restVars
    /\ \E o \in SeqNoiseOptions : NoiseCall(o)

SeqGenStart ==
    /\ pc = "idle"
    /\ prev' = LaterCall(prev)
    /\ UNCHANGED restVars
    /\ \E o \in SeqGenOptions : GenCall(o)

\* The caller keeps what a call with a supplied seed returned, to compare a
\* later call with.
Keep ==
    /\ pc = "done"
    /\ SeedSupplied
    /\ prev' = [fn |-> fn, opts |-> opts, result |-> result, later |-> 0]
    /\ UNCHANGED restVars
    /\ pc' = "idle"
    /\ fn' = "none"
    /\ opts' = <<>>
    /\ FreshCall
    /\ FreshEnc

SeqNext ==
    \/ SeqNoiseStart
    \/ NoiseValidate
    \/ NoiseAlloc
    \/ NoiseDrawU
    \/ NoiseDrawV
    \/ NoiseStoreGaussian
    \/ NoiseStoreUniform
    \/ NoiseFillDone
    \/ NoiseDetrend
    \/ NoiseDcRemoval
    \/ NoiseNormalize
    \/ NoiseClip
    \/ NoiseReturn
    \/ SeqGenStart
    \/ GenGuard
    \/ GenSeed
    \/ GenUseSpare
    \/ GenPolar
    \/ GenFillDone
    \/ GenDetrend
    \/ GenSoften
    \/ GenScale
    \/ Keep
    \/ Forget

\* Calls made one after another, the caller keeping the result of some.
SeqSpec == Init /\ [][SeqNext]_vars

\* --------------------------------------- two calls that draw in turn
\* The values each of the two calls draws from its source.
MaxDraws == 2

PairFns == {"generateEndpointConstrainedWhiteNoise", "generateNoise"}

PairSeeds(f) ==
    IF f = "generateEndpointConstrainedWhiteNoise" THEN NoiseSeeds
    ELSE {Undefined, Num(42), Str(<<97, 98, 99>>)}

\* The random source a call makes for itself: createRng(seed), which is
\* Math.random itself without a seed, or makeLCG(s) with s from the seed or
\* from crypto.getRandomValues.
SourcesOf(f, seed) ==
    IF f = "generateEndpointConstrainedWhiteNoise" THEN {createRng(seed)}
    ELSE IF NoSeed(seed) THEN {[kind |-> "lcg", a |-> makeLCG(w)] : w \in EntropyWords}
    ELSE {[kind |-> "lcg", a |-> makeLCG(SeedWord(seed))]}

\* A call in progress: the source as it made it, the source now, and the
\* values it has drawn.
PairCallOf(f, r) == [fn |-> f, made |-> r, rng |-> r, drawn |-> <<>>]

\* Two generation calls start, in one engine whose Math.random has returned
\* nothing to them yet.
PairStart ==
    /\ pc = "idle" /\ ~pair.started
    /\ \E f1 \in PairFns, f2 \in PairFns :
        \E s1 \in PairSeeds(f1), s2 \in PairSeeds(f2) :
          \E r1 \in SourcesOf(f1, s1), r2 \in SourcesOf(f2, s2) :
            pair' = [started |-> TRUE, mathRandom |-> <<>>,
                     calls |-> <<PairCallOf(f1, r1), PairCallOf(f2, r2)>>]
    /\ UNCHANGED <<pc, fn, callVars, encVars, prev, noiseApp, app>>

\* One call of a source of a pair: <<value, source afterwards, the values
\* Math.random has returned afterwards>>.
PairRngCall(r, returned) ==
    CASE r.kind = "Math.random" -> {<<d, r, Append(returned, d)>> : d \in RandomValues}
      [] r.kind = "mulberry32" -> {<<d[1], d[2], returned>> : d \in RngCall(r)}
      [] OTHER -> {<<LcgOut(LcgStep(r.a)), [r EXCEPT !.a = LcgStep(r.a)], returned>>}

\* Call c draws its next value: rng() in the fill loop, rng.next() in
\* gaussian().
PairDraw(c) ==
    /\ pair.started
    /\ Len(pair.calls[c].drawn) < MaxDraws
    /\ \E d \in PairRngCall(pair.calls[c].rng, pair.mathRandom) :
          pair' = [pair EXCEPT !.mathRandom = d[3],
                               !.calls[c].rng = d[2],
                               !.calls[c].drawn = Append(@, d[1])]
    /\ UNCHANGED <<pc, fn, callVars, encVars, prev, noiseApp, app>>

\* Both calls have drawn what they need and return.
PairEnd ==
    /\ pair.started
    /\ \A c \in 1..2 : Len(pair.calls[c].drawn) = MaxDraws
    /\ pair' = NoPair
    /\ UNCHANGED <<pc, fn, callVars, encVars, prev, noiseApp, app>>

PairNext ==
    \/ PairStart
    \/ \E c \in 1..2 : PairDraw(c)
    \/ PairEnd

PairSpec == Init /\ [][PairNext]_vars

\* ------------------------ EndpointConstrainedNoiseApp: the download links
\* Object URLs one document creates.
MaxUrls == 4

\* if (url) URL.revokeObjectURL(url)
RevokeIfSet(revoked, url) == IF url # 0 THEN revoked \cup {url} ELSE revoked

\* The render that follows a handler, with the new wavUrl and pcmUrl: when
\* either differs from what the installed effect closed over, React runs
\* that effect's cleanup, which revokes both of the values it closed over,
\* and installs the effect of the new render.
Commit(a) ==
    IF <<a.wavUrl, a.pcmUrl>> = a.effect THEN a
    ELSE [a EXCEPT !.revoked = RevokeIfSet(RevokeIfSet(@, a.effect[1]), a.effect[2]),
                   !.effect = <<a.wavUrl, a.pcmUrl>>]

\* The component mounts: sampleRate is 48000, generated is null, the URLs
\* and names are "", and the effect of the first render closes over the
\* URLs.
NoiseAppMount ==
    /\ ~noiseApp.mounted
    /\ noiseApp' = [noiseApp EXCEPT !.mounted = TRUE, !.sampleRate = 48000]
    /\ UNCHANGED <<pc, fn, callVars, encVars, prev, pair, app>>

\* The values typed into the sample rate field.
RateInputs == {0, 44100, 48000}

\* onChange of the sample rate field:
\* setSampleRate(Math.max(1, Number(e.target.value) | 0)); the render that
\* follows leaves the URLs, and so the effect, as they are.
setSampleRate(value) ==
    /\ noiseApp.mounted
    /\ noiseApp' = Commit([noiseApp EXCEPT !.sampleRate = IF value < 1 THEN 1 ELSE value])
    /\ UNCHANGED <<pc, fn, callVars, encVars, prev, pair, app>>

\* handleGenerate, and the render that follows it: effectiveN is 2 or more,
\* so the buffer set is not empty.
handleGenerate ==
    /\ noiseApp.mounted
    /\ noiseApp' =
          Commit([noiseApp EXCEPT
                    !.generated = TRUE,
                    !.revoked = RevokeIfSet(RevokeIfSet(@, noiseApp.wavUrl), noiseApp.pcmUrl),
                    !.wavUrl = 0,
                    !.pcmUrl = 0])
    /\ UNCHANGED <<pc, fn, callVars, encVars, prev, pair, app>>

\* createDownload(kind), and the render that follows it.
createDownload(kind) ==
    /\ noiseApp.mounted
    /\ noiseApp.generated
    /\ noiseApp.created < MaxUrls
    /\ noiseApp' =
          Commit(IF kind = "wav"
                 THEN [noiseApp EXCEPT
                         !.revoked = RevokeIfSet(@, noiseApp.wavUrl),
                         !.created = @ + 1,
                         !.wavUrl = noiseApp.created + 1,
                         !.wavName = noiseApp.sampleRate]
                 ELSE [noiseApp EXCEPT
                         !.revoked = RevokeIfSet(@, noiseApp.pcmUrl),
                         !.created = @ + 1,
                         !.pcmUrl = noiseApp.created + 1,
                         !.pcmName = noiseApp.sampleRate])
    /\ UNCHANGED <<pc, fn, callVars, encVars, prev, pair, app>>

\* The component unmounts: React runs the cleanup of the installed effect.
NoiseAppUnmount ==
    /\ noiseApp.mounted
    /\ noiseApp' =
          [NoNoiseApp EXCEPT
             !.created = noiseApp.created,
             !.revoked = RevokeIfSet(RevokeIfSet(noiseApp.revoked, noiseApp.effect[1]),
                                     noiseApp.effect[2])]
    /\ UNCHANGED <<pc, fn, callVars, encVars, prev, pair, app>>

UrlNext ==
    \/ NoiseAppMount
    \/ \E value \in RateInputs : setSampleRate(value)
    \/ handleGenerate
    \/ \E kind \in {"wav", "pcm"} : createDownload(kind)
    \/ NoiseAppUnmount

\* A user of EndpointConstrainedNoiseApp who generates and creates links.
UrlSpec == Init /\ [][UrlNext]_vars

\* ------------------------------------------------------------- App.tsx
\* doGenerate calls one session makes.
MaxGenerations == 3

\* doGenerate: the buffer its k-th call returns, made with the options of
\* the render whose handler calls it.
doGenerate(a, k) ==
    [call |-> k, distribution |-> a.distribution, targetRmsDbfs |-> a.targetRmsDbfs]

\* App mounts with its initial state.
AppMount ==
    /\ ~app.mounted
    /\ app' = [app EXCEPT !.mounted = TRUE]
    /\ UNCHANGED <<pc, fn, callVars, encVars, prev, pair, noiseApp>>

\* onChange of the distribution select
setDistribution(value) ==
    /\ app.mounted
    /\ app' = [app EXCEPT !.distribution = value]
    /\ UNCHANGED <<pc, fn, callVars, encVars, prev, pair, noiseApp>>

\* The values typed into the target RMS field.
LevelInputs == {-20, 0, 5}

\* onChange of the target RMS field:
\* setTargetRmsDbfs(clamp(+e.target.value || -80, -150, 0))
setTargetRmsDbfs(value) ==
    /\ app.mounted
    /\ app' = [app EXCEPT !.targetRmsDbfs =
                  Min2(0, Max2(-150, IF value = 0 THEN -80 ELSE value))]
    /\ UNCHANGED <<pc, fn, callVars, encVars, prev, pair, noiseApp>>

\* onClick of generate & play: doGenerate(); handlePlay().  handlePlay
\* reads generated from the render the handler belongs to, which
\* setGenerated in doGenerate has not changed: data = generated ??
\* doGenerate().  The state generated after the click is the last buffer
\* set.
GenerateAndPlay ==
    /\ app.mounted
    /\ ~app.isPlaying
    /\ app.calls + 2 <= MaxGenerations
    /\ LET again == app.generated = NoBuffer
           data  == IF again THEN doGenerate(app, app.calls + 2) ELSE app.generated
       IN  app' = [app EXCEPT
                     !.calls = IF again THEN @ + 2 ELSE @ + 1,
                     !.generated = IF again THEN data ELSE doGenerate(app, app.calls + 1),
                     !.click = doGenerate(app, app.calls),
                     !.played = data,
                     !.isPlaying = TRUE]
    /\ UNCHANGED <<pc, fn, callVars, encVars, prev, pair, noiseApp>>

\* handleStop (the stop button is enabled while isPlaying), or src.onended
handleStop ==
    /\ app.mounted
    /\ app.isPlaying
    /\ app' = [app EXCEPT !.isPlaying = FALSE]
    /\ UNCHANGED <<pc, fn, callVars, encVars, prev, pair, noiseApp>>

\* handleDownload: data = generated ?? doGenerate(), encoded and named
\* after the distribution and the level of the render.
handleDownload ==
    /\ app.mounted
    /\ app.calls + 1 <= MaxGenerations
    /\ LET again == app.generated = NoBuffer
           data  == IF again THEN doGenerate(app, app.calls + 1) ELSE app.generated
       IN  app' = [app EXCEPT
                     !.calls = IF again THEN @ + 1 ELSE @,
                     !.generated = data,
                     !.encoded = data,
                     !.fname = doGenerate(app, data.call)]
    /\ UNCHANGED <<pc, fn, callVars, encVars, prev, pair, noiseApp>>

AppNext ==
    \/ AppMount
    \/ \E value \in {"gaussian", "uniform"} : setDistribution(value)
    \/ \E value \in LevelInputs : setTargetRmsDbfs(value)
    \/ GenerateAndPlay
    \/ handleStop
    \/ handleDownload

\* A user of App who changes parameters, plays, stops and downloads.
AppSpec == Init /\ [][AppNext]_vars

\* ------------------------------------------------------------- claims
NoiseFn == "generateEndpointConstrainedWhiteNoise"

\* A call of fname has returned a buffer.
Returned(fname) == pc = "done" /\ fn = fname /\ result.kind = "return"

\* The sample count a generateEndpointConstrainedWhiteNoise request asks
\* for, when it is a whole number (the request holds it in halves).
WholeCount(o) == o.sampleCount.k = "num" /\ o.sampleCount.v % 2 = 0

AllZero(q) == \A j \in 1..Len(q) : q[j] = 0

\* C1: with zeroEndpoints and N >= 1 generateEndpointConstrainedWhiteNoise
\* returns a buffer whose first and last samples are 0, whatever DC removal,
\* RMS scaling and clip rescaling did before the final assignment; and
\* generateNoise returns out[0] = 0 and out[N - 1] = 0 for every N >= 2.
EndpointsAreZero ==
    /\ (Returned(NoiseFn) /\ opts.zeroEndpoints /\ WholeCount(opts)
            /\ opts.sampleCount.v >= 2)
        => /\ Len(result.value) >= 1
           /\ result.value[1] = 0
           /\ result.value[Len(result.value)] = 0
    /\ (Returned("generateNoise") /\ opts.N.k = "num" /\ opts.N.v >= 2)
        => /\ Len(result.value) >= 2
           /\ result.value[1] = 0
           /\ result.value[Len(result.value)] = 0

\* C1 witness: a returned buffer of a request with zeroEndpoints and DC
\* removal that was scaled, with a non-zero sample between zero endpoints.
EndpointsAreZeroWitness ==
    /\ Returned(NoiseFn) /\ opts.zeroEndpoints /\ opts.dcRemoval
    /\ gain.set /\ opts.targetRmsDbfs = 0
    /\ Len(result.value) >= 3
    /\ result.value[1] = 0
    /\ result.value[2] # 0

\* C2 (as claimed): every requested count N >= 0 gives a buffer of length
\* exactly N, from either generator.
LengthIsN ==
    /\ (Returned(NoiseFn) /\ WholeCount(opts) /\ opts.sampleCount.v >= 0)
        => 2 * Len(result.value) = opts.sampleCount.v
    /\ (pc = "done" /\ fn = "generateNoise" /\ opts.N.k = "num" /\ opts.N.v >= 0)
        => result.kind = "return" /\ Len(result.value) = opts.N.v

\* C3 (as claimed): no sample of a returned buffer exceeds magnitude 1.0,
\* from either generator.
NoSampleClips ==
    (pc = "done" /\ result.kind = "return")
        => \A j \in 1..Len(result.value) : Abs(result.value[j]) <= SCALE

\* C4: a call with a supplied seed returns the buffer that an earlier call
\* of the same function with the same request returned, whatever calls were
\* made in between.
SameSeedSameBuffer ==
    (pc = "done" /\ prev.fn = fn /\ prev.opts = opts /\ SeedSupplied)
        => result = prev.result

\* C4 witness: the second of two calls with one seeded request has returned,
\* another call having been made between them.
SameSeedSameBufferWitness ==
    /\ pc = "done" /\ prev.fn = fn /\ fn = NoiseFn /\ prev.opts = opts
    /\ SeedSupplied
    /\ prev.later = 2
    /\ result.kind = "return"
    /\ Len(result.value) >= 3
    /\ ~AllZero(result.value)

\* C5 (as claimed): a returned buffer of N >= 1 samples is never all zeros.
NeverPureSilence ==
    (Returned(NoiseFn) /\ WholeCount(opts) /\ opts.sampleCount.v >= 2)
        => ~AllZero(result.value)

\* C5 (amended): the returned buffer is all zeros when N = 1 with
\* zeroEndpoints or dcRemoval, when N = 2 with zeroEndpoints, and whenever
\* the RMS measured after detrending and DC removal is 0; it holds a
\* non-zero sample whenever that RMS is positive.
SilentOnlyWhenRmsIsZero ==
    (Returned(NoiseFn) /\ WholeCount(opts) /\ opts.sampleCount.v >= 2)
        => /\ (opts.sampleCount.v = 2 /\ (opts.zeroEndpoints \/ opts.dcRemoval))
                => currentRms = 0
           /\ (opts.sampleCount.v = 4 /\ opts.zeroEndpoints) => currentRms = 0
           /\ AllZero(result.value) <=> currentRms = 0

\* C5 witness: both cases, a silent buffer of one sample ...
SilentOnlyWhenRmsIsZeroWitness ==
    /\ Returned(NoiseFn) /\ opts.sampleCount = Num(2) /\ opts.dcRemoval
    /\ ~opts.zeroEndpoints /\ drew /\ result.value = <<0>>

\* A little-endian 32-bit and 16-bit field of a byte sequence, at a byte
\* offset counted from 0.
U32At(bytes, at) ==
    bytes[at + 1] + 256 * bytes[at + 2] + 65536 * bytes[at + 3]
        + 16777216 * bytes[at + 4]

U16At(bytes, at) == bytes[at + 1] + 256 * bytes[at + 2]

\* C6: makeRawPCMBlob gives 2N bytes; makeWavBlob gives 44 + 2N bytes with
\* the RIFF/WAVE header fields at their fixed offsets, the write offset being
\* 44 when the first sample is written and 44 + 2N at the end.
PcmSizeLaw ==
    /\ (pc = "encoded" /\ fn = "makeRawPCMBlob") => blob.size = 2 * Len(samples)
    /\ (pc = "w_samples") => offset = 44
    /\ (pc = "w_blob") => offset = 44 + 2 * Len(samples)
    /\ (pc = "encoded" /\ fn = "makeWavBlob")
        => /\ blob.size = 44 + 2 * Len(samples)
           /\ Len(blob.bytes) = blob.size
           /\ SubSeq(blob.bytes, 1, 4) = <<82, 73, 70, 70>>
           /\ U32At(blob.bytes, 4) = 36 + 2 * Len(samples)
           /\ SubSeq(blob.bytes, 9, 12) = <<87, 65, 86, 69>>
           /\ SubSeq(blob.bytes, 13, 16) = <<102, 109, 116, 32>>
           /\ U32At(blob.bytes, 16) = 16
           /\ U16At(blob.bytes, 20) = 1
           /\ U16At(blob.bytes, 22) = 1
           /\ U32At(blob.bytes, 24) = sampleRate
           /\ U32At(blob.bytes, 28) = sampleRate * 2
           /\ U16At(blob.bytes, 32) = 2
           /\ U16At(blob.bytes, 34) = 16
           /\ SubSeq(blob.bytes, 37, 40) = <<100, 97, 116, 97>>
           /\ U32At(blob.bytes, 40) = 2 * Len(samples)

\* C6 witness: a WAV blob of a buffer of three samples or more.
PcmSizeLawWitness ==
    /\ pc = "encoded" /\ fn = "makeWavBlob"
    /\ Len(samples) >= 3
    /\ blob.size = 44 + 2 * Len(samples)

\* The sample rates generateEndpointConstrainedWhiteNoise must refuse.
BadSampleRate(o) ==
    \/ o.sampleRate.k # "num"
    \/ o.sampleRate.v <= 0

\* C7: with an invalid sample rate generateEndpointConstrainedWhiteNoise
\* throws from its validation: the call never gets past it, no buffer is
\* allocated, no random source made, no value drawn, nothing returned.
InvalidRateThrowsFirst ==
    (fn = NoiseFn /\ BadSampleRate(opts))
        => /\ pc \in {"n_validate", "done"}
           /\ out = <<>>
           /\ rng.kind = "none"
           /\ ~drew
           /\ pc = "done" => result.kind = "throw"

\* C7 witness: the call has thrown for a sample rate of 0.
InvalidRateThrowsFirstWitness ==
    /\ fn = NoiseFn /\ pc = "done"
    /\ opts.sampleRate = Num(0)
    /\ opts.sampleCount = Num(2 * MaxN)
    /\ result.kind = "throw"

\* C8 (as claimed): a negative or non-finite sample count with a valid
\* sample rate never throws; the call returns an empty buffer.
BadCountGivesEmpty ==
    /\ (fn = NoiseFn /\ pc = "done" /\ ~BadSampleRate(opts)
            /\ (opts.sampleCount.k # "num" \/ opts.sampleCount.v < 0))
        => result = Return(<<>>)
    /\ (fn = "generateNoise" /\ pc = "done"
            /\ (opts.N.k # "num" \/ opts.N.v < 0))
        => result = Return(<<>>)

\* C9: when the RMS measured before scaling is 0 the call returns normally
\* a buffer of zeros: generateEndpointConstrainedWhiteNoise computes no gain,
\* generateNoise divides by 1e-20 in place of that RMS, and no sample is
\* non-finite.
DegenerateRmsGivesSilence ==
    /\ (fn = NoiseFn /\ pc = "done" /\ result.kind = "return" /\ currentRms = 0)
        => /\ AllZero(result.value)
           /\ ~gain.set
    /\ (fn = NoiseFn /\ pc = "done" /\ result.kind = "return" /\ currentRms # 0)
        => gain.set
    /\ (Returned("generateNoise") /\ Len(result.value) >= 2 /\ currentRms = 0)
        => /\ AllZero(result.value)
           /\ gain.tiny
    /\ (pc = "done" /\ result.kind = "return")
        => \A j \in 1..Len(result.value) : Abs(result.value[j]) < Huge

\* C9 witness: a run of equal samples whose mean was removed.
DegenerateRmsGivesSilenceWitness ==
    /\ Returned(NoiseFn) /\ currentRms = 0 /\ drew
    /\ opts.dcRemoval /\ ~opts.zeroEndpoints
    /\ Len(result.value) >= 3
    /\ AllZero(result.value)

\* C10: floatToPCM16 keeps length and order, gives values in -32767..32767,
\* 32767 for a sample >= 1, -32767 for a sample <= -1, and otherwise the
\* sample times 32767 truncated toward zero.
FloatToPcmMapping ==
    (pc \in {"w_header", "w_samples", "w_blob", "r_blob", "encoded"})
        => /\ Len(pcm) = Len(samples)
           /\ \A j \in 1..Len(pcm) :
                /\ pcm[j] \in (-32767)..32767
                /\ samples[j] >= SCALE => pcm[j] = 32767
                /\ samples[j] <= -SCALE => pcm[j] = -32767
                /\ Abs(pcm[j]) * SCALE <= Abs(samples[j]) * 32767
                /\ Abs(samples[j]) < SCALE
                    => Abs(samples[j]) * 32767 < (Abs(pcm[j]) + 1) * SCALE
                /\ pcm[j] > 0 => samples[j] > 0
                /\ pcm[j] < 0 => samples[j] < 0

\* C10 witness: a buffer with a sample beyond full scale and a sample
\* inside it, encoded.
FloatToPcmMappingWitness ==
    /\ pc = "r_blob"
    /\ \E j \in 1..Len(samples) : Abs(samples[j]) > SCALE /\ Abs(pcm[j]) = 32767
    /\ \E j \in 1..Len(samples) :
          /\ samples[j] < 0 /\ samples[j] > -SCALE
          /\ samples[j] % SCALE # 0
          /\ pcm[j] < 0

\* The generator computed modulo 2^32: s <- (1664525 s + 1013904223) mod 2^32
LcgMod(w) == WAdd(WImul(LcgMul, w), LcgInc)

\* A word of 32 bits, unsigned
IsUint32(w) == w[1] \in 0..(HALF - 1) /\ w[2] \in 0..(HALF - 1)

\* C11: from every state a random source reaches, the next value it returns
\* is at least 0 and below 1; for makeLCG, whose stored s is not truncated
\* after the addition, the word s >>> 0 after a call is the step modulo 2^32
\* of the word before it, so the outputs are those of the generator modulo
\* 2^32.
RandomSourceRange ==
    /\ rng.kind \in {"Math.random", "mulberry32"}
        => \A d \in RngCall(rng) : d[1] >= 0 /\ d[1] < SCALE
    /\ rng.kind = "mulberry32" => IsUint32(MulberryOut(MulberryStep(rng.a)))
    /\ rng.kind = "lcg"
        => /\ LcgOut(LcgStep(rng.a)) >= 0
           /\ LcgOut(LcgStep(rng.a)) < SCALE
           /\ IsUint32(ToUint32(LcgStep(rng.a)))
           /\ ToUint32(LcgStep(rng.a)) = LcgMod(ToUint32(rng.a))

\* C11 witness: a makeLCG source whose stored s has left the int32 range,
\* in a call that goes on drawing from it.
RandomSourceRangeWitness ==
    /\ pc = "g_fill" /\ rng.kind = "lcg" /\ drew
    /\ i < opts.N.v
    /\ (rng.a[1] >= 32768 \/ rng.a[1] < -32768)

\* C12 (as claimed): a source made from a seed has a non-zero internal state
\* before its first draw, and every call changes the state.
SeedZeroRemapped ==
    /\ (pc = "n_fill" /\ rng.kind = "mulberry32" /\ ~drew) => rng.a # <<0, 0>>
    /\ (pc = "g_fill" /\ rng.kind = "lcg" /\ ~drew) => ToUint32(rng.a) # <<0, 0>>
    /\ rng.kind = "mulberry32" => MulberryStep(rng.a) # rng.a
    /\ rng.kind = "lcg" => ToUint32(LcgStep(rng.a)) # ToUint32(rng.a)

\* makeGaussian: the pair the polar transform takes from the source r, and
\* its sum of squares.
PolarU(r) == 2 * LcgOut(LcgStep(r.a)) - SCALE

PolarV(r) == 2 * LcgOut(LcgStep(LcgStep(r.a))) - SCALE

PolarS(r) == PolarU(r) * PolarU(r) + PolarV(r) * PolarV(r)

\* C13: between calls of gaussian() the cache holds a value exactly after
\* an odd number of calls; a call that finds a value returns it, 0 included,
\* clears the cache and leaves the source alone; a call that finds none
\* draws, returns u * mul and stores v * mul.
SpareConsumedNext ==
    /\ [](pc = "g_fill" => (spare.set <=> i % 2 = 1))
    /\ [][(pc = "g_fill" /\ i' = i + 1)
            => IF spare.set
               THEN /\ x'[i'] = spare.v
                    /\ spare' = NoSpare
                    /\ rng' = rng
               ELSE /\ x'[i'] = FMul(PolarU(rng), PolarMul(PolarS(rng)))
                    /\ spare' = Spare(FMul(PolarV(rng), PolarMul(PolarS(rng))))
                    /\ rng' # rng]_vars

\* C13 witness: the stored value 0 has been returned as the second sample
\* and the cache is empty again.
SpareConsumedNextWitness ==
    /\ pc = "g_fill" /\ i = 2 /\ opts.N.v >= 3
    /\ x[1] # 0 /\ x[2] = 0
    /\ spare = NoSpare
    /\ rng.a = LcgStep(LcgStep(makeLCG(SeedWord(opts.seed))))

RECURSIVE AloneDraws(_, _)
\* The first k values a source made as r returns when nothing else draws
\* from it.
AloneDraws(r, k) ==
    IF k = 0 THEN <<>>
    ELSE IF r.kind = "mulberry32"
         THEN LET d == CHOOSE e \in RngCall(r) : TRUE
              IN  <<d[1]>> \o AloneDraws(d[2], k - 1)
         ELSE <<LcgOut(LcgStep(r.a))>> \o AloneDraws([r EXCEPT !.a = LcgStep(r.a)], k - 1)

\* What call c of a pair draws when it runs alone: from Math.random, the
\* first values Math.random returns.
DrawsWhenAlone(c) ==
    IF pair.calls[c].made.kind = "Math.random"
    THEN SubSeq(pair.mathRandom, 1, Len(pair.calls[c].drawn))
    ELSE AloneDraws(pair.calls[c].made, Len(pair.calls[c].drawn))

\* C14 (as claimed): of two generation calls that draw in turn, with or
\* without a seed, each draws the values it draws when it runs alone: no
\* call advances the generator the other draws from.
NoSharedSourceState ==
    pair.started => \A c \in 1..2 : pair.calls[c].drawn = DrawsWhenAlone(c)

\* The target amplitude 10^(targetRmsDbfs / 20) of a request.
TargetRms(o) == DbToLinear(o.targetRmsDbfs)

\* Half a step of the Float32Array grid: what storing the scaled samples
\* may move an RMS by (0.13 dB at full scale).
RmsTolerance == F32STEP \div 2

\* generateEndpointConstrainedWhiteNoise has returned a buffer that step 4
\* scaled and step 5 did not rescale.
ScaledNotClipped == Returned(NoiseFn) /\ gain.set /\ peak <= SCALE

\* C15 (as claimed): the RMS of the returned buffer is the target amplitude
\* whenever the RMS before scaling is positive and the clip rescale does not
\* trigger, zeroEndpoints and dcRemoval both enabled included.
LoudnessOnTarget ==
    ScaledNotClipped
        => Abs(rms(result.value) - TargetRms(opts)) <= RmsTolerance

\* C15 (amended): right after step 4 the RMS is the target amplitude; the
\* RMS of the returned buffer is the target amplitude when the clip rescale
\* does not trigger and zeroEndpoints and dcRemoval are not both enabled,
\* and is not above it when both are.
LoudnessOnTargetUnlessRezeroed ==
    /\ (pc = "n_clip" /\ gain.set)
        => Abs(rms(out) - TargetRms(opts)) <= RmsTolerance
    /\ (ScaledNotClipped /\ ~(opts.zeroEndpoints /\ opts.dcRemoval))
        => Abs(rms(result.value) - TargetRms(opts)) <= RmsTolerance
    /\ (ScaledNotClipped /\ opts.zeroEndpoints /\ opts.dcRemoval)
        => rms(result.value) <= TargetRms(opts) + RmsTolerance

\* C15 witness: with zeroEndpoints and dcRemoval a buffer scaled to full
\* scale and not rescaled is returned more than 0.5 dB below the target.
LoudnessOnTargetUnlessRezeroedWitness ==
    /\ ScaledNotClipped /\ opts.zeroEndpoints /\ opts.dcRemoval
    /\ opts.targetRmsDbfs = 0
    /\ Len(result.value) >= 4
    /\ 16 * rms(result.value) < 15 * TargetRms(opts)

\* What rounding may leave of a sum that is 0: half a step of the
\* Float32Array grid for every stored sample, and the rounding of the mean
\* that every sample carries.
SumTolerance(data) == Len(data) * (F32STEP \div 2 + 1)

\* What rounding may leave of that sum in the returned buffer: the sum left
\* by step 3 times the gain of step 4, and the rounding of the two stores
\* of steps 4 and 5.
ReturnedSumTolerance ==
    IF gain.set /\ ~gain.tiny
    THEN FMul(gain.v, SumTolerance(result.value)) + 2 * SumTolerance(result.value)
    ELSE SumTolerance(result.value)

\* generateEndpointConstrainedWhiteNoise has returned a buffer of one
\* sample or more for a request with dcRemoval.
ReturnedDcRemoved ==
    Returned(NoiseFn) /\ opts.dcRemoval /\ Len(result.value) >= 1

\* C17 (as claimed): with dcRemoval and N >= 1 the samples of the returned
\* buffer sum to 0, with zeroEndpoints on or off.
DcRemovalZeroMean ==
    ReturnedDcRemoved => Abs(SumSeq(result.value)) <= ReturnedSumTolerance

\* C17 (amended): right after step 3 the samples sum to 0, and with
\* zeroEndpoints off the samples of the returned buffer sum to 0.
DcRemovalZeroMeanUnlessRezeroed ==
    /\ (pc = "n_normalize" /\ opts.dcRemoval)
        => Abs(SumSeq(out)) <= SumTolerance(out)
    /\ (ReturnedDcRemoved /\ ~opts.zeroEndpoints)
        => Abs(SumSeq(result.value)) <= ReturnedSumTolerance

\* C17 witness: a returned buffer of three non-zero samples or more whose
\* mean was removed and whose endpoints were left alone.
DcRemovalZeroMeanUnlessRezeroedWitness ==
    /\ ReturnedDcRemoved /\ ~opts.zeroEndpoints
    /\ Len(result.value) >= 3
    /\ \A j \in 1..Len(result.value) : result.value[j] # 0
    /\ Abs(SumSeq(result.value)) <= ReturnedSumTolerance

\* ------------------------------------------------ calls that run to the end
\* The requests of the specification of calls that run to the end: a valid
\* rate, the largest count, and for generateEndpointConstrainedWhiteNoise
\* no seed (Math.random, the source that may return any value in any order).
LiveNoiseOptions ==
    [sampleRate : {Num(48000)}, sampleCount : {Num(2 * MaxN)},
     distribution : {"gaussian", "uniform"}, targetRmsDbfs : {0},
     zeroEndpoints : {TRUE}, dcRemoval : {TRUE}, seed : {Undefined}]

LiveGenOptions ==
    [N : {Num(MaxN - 1), Num(MaxN)}, rmsDBFS : {0}, softenEdges : {TRUE},
     seed : GenSeeds]

LiveNoiseStart ==
    pc = "idle" /\ UNCHANGED <<prev, restVars>> /\ \E o \in LiveNoiseOptions : NoiseCall(o)

LiveGenStart ==
    pc = "idle" /\ UNCHANGED <<prev, restVars>> /\ \E o \in LiveGenOptions : GenCall(o)

\* One step of a fill loop: both functions are synchronous, so a loop that
\* has started keeps taking steps.
FillStep ==
    \/ NoiseDrawU
    \/ NoiseDrawV
    \/ NoiseStoreGaussian
    \/ NoiseStoreUniform
    \/ NoiseFillDone
    \/ GenUseSpare
    \/ GenPolar
    \/ GenFillDone

LiveNext ==
    \/ LiveNoiseStart
    \/ NoiseValidate
    \/ NoiseAlloc
    \/ NoiseDrawU
    \/ NoiseDrawV
    \/ NoiseStoreGaussian
    \/ NoiseStoreUniform
    \/ NoiseFillDone
    \/ NoiseDetrend
    \/ NoiseDcRemoval
    \/ NoiseNormalize
    \/ NoiseClip
    \/ NoiseReturn
    \/ LiveGenStart
    \/ GenGuard
    \/ GenSeed
    \/ GenUseSpare
    \/ GenPolar
    \/ GenFillDone
    \/ GenDetrend
    \/ GenSoften
    \/ GenScale
    \/ Forget

\* Fill loops that keep running, on a random source that does not return
\* the rejected value 0 for ever.
LiveSpec ==
    /\ Init
    /\ [][LiveNext]_vars
    /\ WF_vars(FillStep)
    /\ WF_vars(NoiseDrawU /\ u' # 0)
    /\ WF_vars(NoiseDrawV /\ v' # 0)

RECURSIVE LcgAfter(_, _)
\* The state of makeLCG's closure k calls after state s.
LcgAfter(s, k) == IF k = 0 THEN s ELSE LcgAfter(LcgStep(s), k - 1)

\* C16: randomGaussian returns only from two non-zero draws and
\* makeGaussian's loop leaves only with 0 < s < 1 and goes round again on
\* any other s; on a random source that does not return 0 for ever, a fill
\* loop that has started ends with all its N samples stored.
RejectionLoopsExit ==
    /\ [][(pc = "n_fill" /\ opts.distribution = "gaussian" /\ i' = i + 1)
            => /\ u # 0 /\ v # 0
               /\ out'[i'] = Fround(randomGaussian(u, v))]_vars
    /\ [][(pc = "g_fill" /\ ~spare.set /\ i' = i + 1)
            => (0 < PolarS(rng) /\ PolarS(rng) < SCALE * SCALE)]_vars
    /\ [][(pc = "g_fill" /\ ~spare.set /\ rng' # rng /\ pc' = pc /\ i' = i)
            => (PolarS(rng) = 0 \/ PolarS(rng) >= SCALE * SCALE)]_vars
    /\ (pc = "n_fill") ~> (pc = "n_detrend" /\ i = n.v)
    /\ (pc = "g_fill") ~> (pc = "g_detrend" /\ i = opts.N.v)

\* C16 witness: generateNoise has returned all its samples from a supplied
\* seed after its source was called more often than twice for every pair
\* of samples, so a pair was rejected on the way.
RejectionLoopsExitWitness ==
    /\ fn = "generateNoise" /\ pc = "done" /\ result.kind = "return"
    /\ ~NoSeed(opts.seed)
    /\ Len(result.value) = opts.N.v /\ opts.N.v >= 2
    /\ \E s \in {makeLCG(SeedWord(opts.seed))} :
          rng.a # LcgAfter(s, 2 * ((opts.N.v + 1) \div 2))

\* C18: every object URL that EndpointConstrainedNoiseApp holds in wavUrl
\* or pcmUrl, and so shows as a download link, has not been revoked.
HeldUrlsNotRevoked ==
    noiseApp.mounted
        => /\ noiseApp.wavUrl # 0 => noiseApp.wavUrl \notin noiseApp.revoked
           /\ noiseApp.pcmUrl # 0 => noiseApp.pcmUrl \notin noiseApp.revoked

\* C19: the buffer a click on generate & play hands to playback was made by
\* a doGenerate call of that click with the options of that click, and the
\* buffer a download hands to encodeWav16bitPCM was made with the
\* distribution and the level that its file name gives.
PlaysAndEncodesFresh ==
    /\ app.played # NoBuffer
         => /\ app.played.call > app.click.call
            /\ app.played.distribution = app.click.distribution
            /\ app.played.targetRmsDbfs = app.click.targetRmsDbfs
    /\ app.encoded # NoBuffer
         => /\ app.encoded.distribution = app.fname.distribution
            /\ app.encoded.targetRmsDbfs = app.fname.targetRmsDbfs

====
